---- MODULE Spec2Model ----
(***************************************************************************)
(* A model of the virtual machine interpreter (src/src/machine.rs): the    *)
(* byte memory with its little-endian multi-width accessors and the        *)
(* microcode interpreter MachineState::execute; and of the instruction     *)
(* descriptions (src/src/insn.rs, src/src/domain.rs): bit and byte         *)
(* domains, formats, operand expressions, microcode templates and their    *)
(* lowering to microcode.                                                  *)
(*                                                                         *)
(* Specifications.  Spec runs one operation of the machine; SpecRun runs   *)
(* sequences of operations and keeps their trace; SpecOps calls arity and  *)
(* to_microcode on operand expressions and templates; SpecFormat builds a  *)
(* Format and counts it; SpecInsn builds an Instruction and lowers it;     *)
(* SpecDomain builds a Bits or a Bytes and counts it, one loop round a     *)
(* step; SpecLib builds an Instruction of microcode (src/src/lib.rs) and   *)
(* executes it.                                                            *)
(*                                                                         *)
(* Fixed-width integers.  TLC's integers are 32 bits wide, so a u32, a     *)
(* u64 or a usize cannot be one TLC number.  A machine integer is kept as  *)
(* a little-endian sequence of 16-bit limbs (limb 1 is the least           *)
(* significant): a u8 and a u16 are one limb, a u32 two, a u64 and a usize *)
(* four.  All arithmetic is carried limb by limb, so every value has its   *)
(* real width and wraps where the machine integer wraps.                   *)
(*                                                                         *)
(* Panics.  A Rust panic unwinds out of the call and leaves behind the     *)
(* stores made before it.  An operation's result records which panic (if   *)
(* any) ended it:                                                          *)
(*    "IndexOutOfBounds"   slice index out of range      (OutOfBounds)     *)
(*    "TryFromIntError"    unwrap of a failed try_into   (ImmediateOverflow)*)
(*    "SubOverflow"        usize subtraction overflow    (PcUnderflow)     *)
(*    "AddOverflow"        usize addition overflow                         *)
(*    "NegOverflow"        isize negation overflow                         *)
(*    "AssertFailed"       a failed assert!  (FormatTooWide, ArityMismatch)*)
(*    "todo"               todo!(): not yet implemented                    *)
(* The three arithmetic panics exist only in a build with overflow checks  *)
(* (the debug profile); without them (the release profile) the arithmetic  *)
(* wraps.  The build is chosen once, in Init.                              *)
(***************************************************************************)
EXTENDS Integers, Sequences, FiniteSets, TLC

\* ------------------------------------------------------------------ bounds

\* Length of the byte buffer handed to MachineState::new.
BufLen == 9

\* Number of operations performed on one machine state.
MaxSteps == 1

\* ------------------------------------------------------- machine integers

\* One limb holds 16 bits.
Radix == 256 * 256

\* Width in bytes of each variant of the Width enum.
WidthBytes(w) ==
    CASE w = "Byte" -> 1
      [] w = "Word" -> 2
      [] w = "DoubleWord" -> 4
      [] w = "QuadWord" -> 8

Width == {"Byte", "Word", "DoubleWord", "QuadWord"}

\* Number of limbs of an unsigned integer of n bytes.
Limbs(n) == IF n <= 2 THEN 1 ELSE n \div 2

\* Number of values one limb of an n-byte integer can take.
LimbRadix(n) == IF n = 1 THEN 256 ELSE Radix

\* usize and u64 are both 8 bytes (a 64-bit target).
UsizeBytes == WidthBytes("QuadWord")

\* The usize (or u64) with the small value n.
Small(n) == [j \in 1..Limbs(UsizeBytes) |-> IF j = 1 THEN n ELSE 0]

\* usize::MAX and u64::MAX.
UsizeMax == [j \in 1..Limbs(UsizeBytes) |-> Radix - 1]

\* 2^63, the magnitude of isize::MIN.
TwoTo63 == [j \in 1..Limbs(UsizeBytes) |-> IF j = Limbs(UsizeBytes) THEN Radix \div 2 ELSE 0]

\* isize::MAX as a magnitude.
IsizeMaxMag == [j \in 1..Limbs(UsizeBytes) |-> IF j = Limbs(UsizeBytes) THEN (Radix \div 2) - 1 ELSE Radix - 1]

\* The carry into limb j when a and b are added limb by limb.
RECURSIVE Carry(_, _, _, _)
Carry(a, b, j, radix) ==
    IF j = 1 THEN 0
    ELSE (a[j - 1] + b[j - 1] + Carry(a, b, j - 1, radix)) \div radix

\* The borrow out of limb j - 1 when b is subtracted from a limb by limb.
RECURSIVE Borrow(_, _, _, _)
Borrow(a, b, j, radix) ==
    IF j = 1 THEN 0
    ELSE IF a[j - 1] - b[j - 1] - Borrow(a, b, j - 1, radix) < 0 THEN 1 ELSE 0

\* A faulty wrapping_add: a sum that overflows saturates at the largest
\* unsigned value (uN::saturating_add).
saturating_add(a, b, n) ==
    IF Carry(a, b, Limbs(n) + 1, LimbRadix(n)) = 1
    THEN [j \in 1..Limbs(n) |-> LimbRadix(n) - 1]
    ELSE [j \in 1..Limbs(n) |-> (a[j] + b[j] + Carry(a, b, j, LimbRadix(n))) % LimbRadix(n)]

\* A faulty wrapping_add: the limbs are added with no carry between them.
wrapping_add_no_carry(a, b, n) ==
    [j \in 1..Limbs(n) |-> (a[j] + b[j]) % LimbRadix(n)]

\* uN::wrapping_add for an n-byte unsigned integer: the carry out is dropped.
wrapping_add(a, b, n) ==
    [j \in 1..Limbs(n) |->
        (a[j] + b[j] + Carry(a, b, j, LimbRadix(n))) % LimbRadix(n)]

\* uN::wrapping_sub for an n-byte unsigned integer.
wrapping_sub(a, b, n) ==
    [j \in 1..Limbs(n) |->
        (a[j] - b[j] - Borrow(a, b, j, LimbRadix(n)) + LimbRadix(n)) % LimbRadix(n)]

\* Whether a + b overflows an n-byte unsigned integer.
add_overflows(a, b, n) == Carry(a, b, Limbs(n) + 1, LimbRadix(n)) = 1

\* Whether a - b overflows (goes below zero in) an n-byte unsigned integer.
sub_overflows(a, b, n) == Borrow(a, b, Limbs(n) + 1, LimbRadix(n)) = 1

\* A faulty from_le_bytes: the byte at the lowest address is taken as the most
\* significant of each pair.
from_be_pairs(bytes) ==
    IF Len(bytes) = 1 THEN <<bytes[1]>>
    ELSE [j \in 1..(Len(bytes) \div 2) |-> bytes[2 * j] + 256 * bytes[2 * j - 1]]

\* uN::from_le_bytes: bytes is a sequence of n bytes, lowest address first.
from_le_bytes(bytes) ==
    IF Len(bytes) = 1 THEN <<bytes[1]>>
    ELSE [j \in 1..(Len(bytes) \div 2) |-> bytes[2 * j - 1] + 256 * bytes[2 * j]]

\* A faulty to_le_bytes: the bytes of the value, most significant first.
to_be_bytes(value, n) ==
    IF n = 1 THEN <<value[1]>>
    ELSE [k \in 1..n |->
            IF (n + 1 - k) % 2 = 1 THEN value[(n + 2 - k) \div 2] % 256
            ELSE value[(n + 1 - k) \div 2] \div 256]

\* A faulty to_le_bytes: each 16-bit half is laid out least significant byte
\* first, but the halves themselves most significant first (middle-endian).
to_le_bytes_halves_swapped(value, n) ==
    IF n = 1 THEN <<value[1]>>
    ELSE [k \in 1..n |->
            IF k % 2 = 1 THEN value[Limbs(n) + 1 - ((k + 1) \div 2)] % 256
            ELSE value[Limbs(n) + 1 - (k \div 2)] \div 256]

\* uN::to_le_bytes of an n-byte value: the sequence of its n bytes, least
\* significant first.
to_le_bytes(value, n) ==
    IF n = 1 THEN <<value[1]>>
    ELSE [k \in 1..n |->
            IF k % 2 = 1 THEN value[(k + 1) \div 2] % 256
            ELSE value[k \div 2] \div 256]

\* A faulty try_into: the value is truncated to n bytes (an `as` cast).
try_into_truncating(i, n) ==
    [ok |-> TRUE, value |-> [j \in 1..Limbs(n) |-> i[j] % LimbRadix(n)]]

\* u64 -> uN by try_into: fails when the value does not fit in n bytes.
try_into(i, n) ==
    IF n = UsizeBytes THEN [ok |-> TRUE, value |-> i]
    ELSE IF /\ \A j \in (Limbs(n) + 1)..Limbs(UsizeBytes) : i[j] = 0
            /\ i[Limbs(n)] < LimbRadix(n)
         THEN [ok |-> TRUE, value |-> [j \in 1..Limbs(n) |-> i[j]]]
         ELSE [ok |-> FALSE, value |-> <<>>]

\* ------------------------------------------------------------------ Memory

\* A faulty read: only the first index is checked, and a byte past the end of
\* the buffer reads as 0.
read_uN_first_index_only(contents, address, n) ==
    IF address \in DOMAIN contents
    THEN [ok |-> TRUE,
          value |-> from_le_bytes([k \in 1..n |->
                      IF address + k - 1 \in DOMAIN contents
                      THEN contents[address + k - 1] ELSE 0])]
    ELSE [ok |-> FALSE, value |-> <<>>]

\* Memory::read_u8 .. read_u64: the n bytes at address, address+1, ... are
\* indexed in ascending order; the first index outside the buffer panics.
read_uN(contents, address, n) ==
    IF \A k \in 0..(n - 1) : address + k \in DOMAIN contents
    THEN [ok |-> TRUE,
          value |-> from_le_bytes([k \in 1..n |-> contents[address + k - 1]])]
    ELSE [ok |-> FALSE, value |-> <<>>]

\* The stores of Memory::write_u*, in the order the code makes them: byte k
\* of the value goes to address + k - 1; a store outside the buffer panics
\* and the earlier stores stay.
RECURSIVE Store(_, _, _, _)
Store(contents, address, bytes, k) ==
    IF k > Len(bytes) THEN [ok |-> TRUE, contents |-> contents]
    ELSE IF address + k - 1 \notin DOMAIN contents
         THEN [ok |-> FALSE, contents |-> contents]
         ELSE Store([contents EXCEPT ![address + k - 1] = bytes[k]],
                    address, bytes, k + 1)

\* A faulty write: the byte after the value, when the buffer has one, is
\* cleared.
write_uN_clearing_next(contents, address, value, n) ==
    LET st == Store(contents, address, to_le_bytes(value, n), 1)
    IN  IF st.ok /\ address + n \in DOMAIN contents
        THEN [ok |-> TRUE, contents |-> [st.contents EXCEPT ![address + n] = 0]]
        ELSE st

\* A faulty write: the buffer grows to take a store past its end.
write_uN_growing(contents, address, value, n) ==
    LET bytes == to_le_bytes(value, n)
        top == IF address + n - 1 \in DOMAIN contents
               THEN Cardinality(DOMAIN contents) - 1
               ELSE address + n - 1
    IN  [ok |-> TRUE,
         contents |-> [a \in 0..top |->
                          IF a >= address /\ a < address + n THEN bytes[a - address + 1]
                          ELSE IF a \in DOMAIN contents THEN contents[a]
                          ELSE 0]]

\* Memory::write_u8 .. write_u64.
write_uN(contents, address, value, n) ==
    Store(contents, address, to_le_bytes(value, n), 1)

\* An isize as a sign and a magnitude: <<negative, magnitude>>, the magnitude
\* a 64-bit unsigned integer; zero is not negative.
Isize(neg, mag) == <<neg, mag>>
IsNeg(i) == i[1]
Mag(i) == i[2]

\* The components of a microcode tuple (see Add .. Load below).
OpOf(insn) == insn[1]
XOf(insn) == insn[2]
YOf(insn) == insn[3]
WOf(insn) == insn[4]
ImmOf(insn) == insn[5]
OffOf(insn) == insn[6]

\* ------------------------------------------------------------ MachineState

\* The outcome of an operation: the panic that ended it, or "ok".
Outcome(res, contents, pc) == [res |-> res, contents |-> contents, pc |-> pc]

\* `self.pc += d` on a usize: with overflow checks an overflowing addition
\* panics and pc keeps its value; without them it wraps.
pc_add(contents, pc, d, checks) ==
    IF add_overflows(pc, d, UsizeBytes) /\ checks
    THEN Outcome("AddOverflow", contents, pc)
    ELSE Outcome("ok", contents, wrapping_add(pc, d, UsizeBytes))

\* `self.pc -= d` on a usize.
pc_sub(contents, pc, d, checks) ==
    IF sub_overflows(pc, d, UsizeBytes) /\ checks
    THEN Outcome("SubOverflow", contents, pc)
    ELSE Outcome("ok", contents, wrapping_sub(pc, d, UsizeBytes))

\* MachineCode::Add(x,y,w): v = read(x); w = read(y); write(x, v + w); pc += 1.
execute_Add(contents, pc, insn, checks) ==
    LET n == WidthBytes(WOf(insn))
        v == read_uN(contents, XOf(insn), n)
        w == read_uN(contents, YOf(insn), n)
    IN  IF ~v.ok \/ ~w.ok THEN Outcome("IndexOutOfBounds", contents, pc)
        ELSE LET st == write_uN(contents, XOf(insn), wrapping_add(v.value, w.value, n), n)
             IN  IF ~st.ok THEN Outcome("IndexOutOfBounds", st.contents, pc)
                 ELSE pc_add(st.contents, pc, Small(1), checks)

\* A faulty Copy: the bytes are moved one at a time in ascending order, each
\* read from the buffer as the earlier stores have left it.
RECURSIVE copy_bytewise(_, _, _, _, _)
copy_bytewise(contents, x, y, n, k) ==
    IF k = n THEN contents
    ELSE copy_bytewise([contents EXCEPT ![x + k] = contents[y + k]], x, y, n, k + 1)

execute_Copy_bytewise(contents, pc, insn, checks) ==
    LET n == WidthBytes(WOf(insn))
    IN  IF ~read_uN(contents, YOf(insn), n).ok \/ ~read_uN(contents, XOf(insn), n).ok
        THEN Outcome("IndexOutOfBounds", contents, pc)
        ELSE pc_add(copy_bytewise(contents, XOf(insn), YOf(insn), n, 0), pc, Small(1), checks)

\* MachineCode::Copy(x,y,w): v = read(y); write(x, v); pc += 1.
execute_Copy(contents, pc, insn, checks) ==
    LET n == WidthBytes(WOf(insn))
        v == read_uN(contents, YOf(insn), n)
    IN  IF ~v.ok THEN Outcome("IndexOutOfBounds", contents, pc)
        ELSE LET st == write_uN(contents, XOf(insn), v.value, n)
             IN  IF ~st.ok THEN Outcome("IndexOutOfBounds", st.contents, pc)
                 ELSE pc_add(st.contents, pc, Small(1), checks)

\* A faulty Goto: the target is taken relative to pc.
execute_Goto_relative(contents, pc, insn, checks) ==
    Outcome("ok", contents, wrapping_add(pc, ImmOf(insn), UsizeBytes))

\* A faulty Goto: a target that is not an address of the buffer is refused.
execute_Goto_bounded(contents, pc, insn, checks) ==
    IF ImmOf(insn) \in {Small(a) : a \in DOMAIN contents}
    THEN Outcome("ok", contents, ImmOf(insn))
    ELSE Outcome("IndexOutOfBounds", contents, pc)

\* MachineCode::Goto(i): pc = i.
execute_Goto(contents, pc, insn, checks) == Outcome("ok", contents, ImmOf(insn))

\* A faulty Jump: the sign of the offset is ignored.
execute_Jump_unsigned(contents, pc, insn, checks) ==
    pc_add(contents, pc, Mag(OffOf(insn)), checks)

\* MachineCode::Jump(i): if i < 0 { pc -= -i as usize } else { pc += i as usize }.
\* The offset i is an isize, kept as a sign and a magnitude; -i overflows
\* for isize::MIN only, and without overflow checks it wraps to isize::MIN,
\* whose cast to usize is 2^63, the magnitude again.
execute_Jump(contents, pc, insn, checks) ==
    IF IsNeg(OffOf(insn))
    THEN IF Mag(OffOf(insn)) = TwoTo63 /\ checks
         THEN Outcome("NegOverflow", contents, pc)
         ELSE pc_sub(contents, pc, Mag(OffOf(insn)), checks)
    ELSE pc_add(contents, pc, Mag(OffOf(insn)), checks)

\* MachineCode::Load(x,i,w): write(x, i.try_into().unwrap()); pc += 1.  The
\* argument is converted before write_u* is entered; at QuadWord width the
\* u64 is passed as it is.
execute_Load(contents, pc, insn, checks) ==
    LET n == WidthBytes(WOf(insn))
        c == try_into(ImmOf(insn), n)
    IN  IF ~c.ok THEN Outcome("TryFromIntError", contents, pc)
        ELSE LET st == write_uN(contents, XOf(insn), c.value, n)
             IN  IF ~st.ok THEN Outcome("IndexOutOfBounds", st.contents, pc)
                 ELSE pc_add(st.contents, pc, Small(1), checks)

\* A faulty execute: the match has no arm for a QuadWord Copy.
execute_without_Copy_QuadWord(contents, pc, insn, checks) ==
    CASE OpOf(insn) = "Add" /\ WOf(insn) \in Width -> execute_Add(contents, pc, insn, checks)
      [] OpOf(insn) = "Copy" /\ WOf(insn) \in Width \ {"QuadWord"} ->
            execute_Copy(contents, pc, insn, checks)
      [] OpOf(insn) = "Goto" -> execute_Goto(contents, pc, insn, checks)
      [] OpOf(insn) = "Jump" -> execute_Jump(contents, pc, insn, checks)
      [] OpOf(insn) = "Load" /\ WOf(insn) \in Width -> execute_Load(contents, pc, insn, checks)
      [] OTHER -> Outcome("todo", contents, pc)

\* MachineState::execute: the match on the microcode variant.  The last arm
\* is the catch-all `todo!`.
execute(contents, pc, insn, checks) ==
    CASE OpOf(insn) = "Add" /\ WOf(insn) \in Width -> execute_Add(contents, pc, insn, checks)
      [] OpOf(insn) = "Copy" /\ WOf(insn) \in Width -> execute_Copy(contents, pc, insn, checks)
      [] OpOf(insn) = "Goto" -> execute_Goto(contents, pc, insn, checks)
      [] OpOf(insn) = "Jump" -> execute_Jump(contents, pc, insn, checks)
      [] OpOf(insn) = "Load" /\ WOf(insn) \in Width -> execute_Load(contents, pc, insn, checks)
      [] OTHER -> Outcome("todo", contents, pc)

\* ------------------------------------------------------------------ inputs

\* Addresses handed to the operations: the start of the buffer, addresses
\* whose wider accesses straddle the end of the buffer, and the first address
\* past the end.  Every address at or beyond the end behaves as BufLen does,
\* because the first index of every access is the address itself.
Addrs == {0, 1, BufLen - 3, BufLen - 1, BufLen}

\* Source addresses of Add and Copy.
SrcAddrs == {0, 1, BufLen - 1}

\* u64 immediates: 255, 257, 0x01020304, 2^32 + 1 and 0x0807060504030201.
Imms ==
    { Small(255), Small(257), <<772, 258, 0, 0>>,
      <<1, 0, 1, 0>>, <<513, 1027, 1541, 2055>> }

\* Goto targets.
Targets == {Small(0), Small(2), UsizeMax}

\* Jump offsets: -3, -2, 0, 1, isize::MIN and isize::MAX.
Offsets ==
    { Isize(TRUE, Small(3)), Isize(TRUE, Small(2)),
      Isize(FALSE, Small(0)), Isize(FALSE, Small(1)),
      Isize(TRUE, TwoTo63), Isize(FALSE, IsizeMaxMag) }

\* Initial values of pc given to MachineState::new.
InitPcs == {Small(0), Small(2), UsizeMax}

\* Initial buffers given to MachineState::new: byte k holds first + k * step
\* (mod 256).
InitBuffers ==
    { [k \in 0..(BufLen - 1) |-> (p[1] + k * p[2]) % 256] :
        p \in {<<255, 0>>, <<250, 3>>} }

NoOff == Isize(FALSE, Small(0))

\* The microcode values of `enum MachineCode`, as tuples
\* <<variant, x, y, width, immediate or target, offset>>; a variant leaves
\* the components it does not have at a filler value.
Add(x, y, w) == <<"Add", x, y, w, Small(0), NoOff>>
Copy(x, y, w) == <<"Copy", x, y, w, Small(0), NoOff>>
Goto(i) == <<"Goto", 0, 0, "Byte", i, NoOff>>
Jump(i) == <<"Jump", 0, 0, "Byte", Small(0), i>>
Load(x, i, w) == <<"Load", x, 0, w, i, NoOff>>

\* ------------------------------------------------------------------- state

VARIABLES
    contents,   \* Memory.contents: the byte buffer, indexed from 0
    pc,         \* MachineState.pc (a usize)
    checks,     \* whether the build panics on integer overflow
    steps,      \* operations performed so far
    last,       \* the last operation: its kind, arguments, the state before
                \* it and its result
    format,     \* the Format built by Format::new, if any
    instruction, \* the Instruction built by Instruction::new, if any
    call,       \* the last call on an operand, a template, an Instruction, a
                \* Format or a domain: its kind, arguments and result
    domain,     \* the Bits or Bytes value built or taken, if any
    trace       \* the operations of a run of the machine, oldest first

descVars == <<format, instruction, call, domain>>

vars == <<contents, pc, checks, steps, last, trace, descVars>>

\* No Format, no Instruction, no call made yet.
None == <<"None">>

NoCall == [kind |-> "none", op |-> None, operands |-> <<>>, res |-> "ok", value |-> <<>>]

NoInsn == Goto(Small(0))

Record(kind, insn, res, value) ==
    [kind |-> kind, insn |-> insn, res |-> res, value |-> value,
     pre_contents |-> contents, pre_pc |-> pc]

\* MachineState::new(pc, bytes).
Init ==
    /\ contents \in InitBuffers
    /\ pc \in InitPcs
    /\ checks \in BOOLEAN
    /\ steps = 0
    /\ last = [kind |-> "new", insn |-> NoInsn, res |-> "ok", value |-> <<>>,
               pre_contents |-> contents, pre_pc |-> pc]
    /\ format = None
    /\ instruction = None
    /\ call = NoCall
    /\ domain = None
    /\ trace = <<>>

\* One call of MachineState::execute(insn).
Execute(insn) ==
    /\ steps < MaxSteps
    /\ LET out == execute(contents, pc, insn, checks)
       IN  /\ contents' = out.contents
           /\ pc' = out.pc
           /\ last' = Record("execute", insn, out.res, <<>>)
    /\ steps' = steps + 1
    /\ UNCHANGED <<checks, trace, descVars>>

ExecuteAdd ==
    \E x \in Addrs, y \in SrcAddrs, w \in Width :
        /\ Execute(Add(x, y, w))

ExecuteCopy ==
    \E x \in Addrs, y \in SrcAddrs, w \in Width :
        /\ Execute(Copy(x, y, w))

ExecuteGoto ==
    \E i \in Targets :
        /\ Execute(Goto(i))

ExecuteJump ==
    \E i \in Offsets :
        /\ Execute(Jump(i))

ExecuteLoad ==
    \E x \in Addrs, i \in Imms, w \in Width :
        /\ Execute(Load(x, i, w))

\* One call of state.data.read_u8 .. read_u64(address).  The access is kept in
\* last as a Load-shaped tuple: its x the address, its width the width read.
MemRead ==
    \E a \in Addrs, w \in Width :
        /\ steps < MaxSteps
        /\ LET r == read_uN(contents, a, WidthBytes(w))
           IN  last' = Record("read", Load(a, Small(0), w),
                              IF r.ok THEN "ok" ELSE "IndexOutOfBounds", r.value)
        /\ steps' = steps + 1
        /\ UNCHANGED <<contents, pc, checks, trace, descVars>>

\* One call of state.data.write_u8 .. write_u64(address, value); the value is
\* of the width's own type, so it fits the width.  The access is kept in last
\* as a Load-shaped tuple, and the value written as last.value.
MemWrite ==
    \E a \in Addrs, w \in Width, i \in Imms :
        /\ steps < MaxSteps
        /\ try_into(i, WidthBytes(w)).ok
        /\ LET v == try_into(i, WidthBytes(w)).value
               st == write_uN(contents, a, v, WidthBytes(w))
           IN  /\ contents' = st.contents
               /\ last' = Record("write", Load(a, i, w),
                                 IF st.ok THEN "ok" ELSE "IndexOutOfBounds", v)
        /\ steps' = steps + 1
        /\ UNCHANGED <<pc, checks, trace, descVars>>

Next ==
    \/ ExecuteAdd
    \/ ExecuteCopy
    \/ ExecuteGoto
    \/ ExecuteJump
    \/ ExecuteLoad
    \/ MemRead
    \/ MemWrite

Spec == Init /\ [][Next]_vars

\* ---------------------------------------------------- specification: runs

\* Number of operations of a run of the machine.
MaxRun == 3

\* The buffers of a run: every byte 100 (the sum of two overflows the signed
\* range upwards), and every byte 128 (the sum of two overflows it downwards).
RunBuffers == {[k \in 0..(BufLen - 1) |-> b] : b \in {100, 128}}

RunPcs == {Small(0), UsizeMax}

\* The microcode of a run: in-range operations, operations that straddle or
\* pass the end of the buffer, an immediate that does not fit, targets and
\* offsets that leave pc inside and outside the buffer, and an offset below 0.
RunInsns ==
    {Add(0, 1, w) : w \in Width}
    \cup {Add(BufLen - 1, 0, "Word"),
          Copy(0, 1, "Byte"), Copy(BufLen - 1, 0, "Word"),
          Load(0, Small(255), "Byte"), Load(BufLen, Small(255), "Byte"),
          Load(0, Small(257), "Byte"),
          Goto(Small(0)), Goto(Small(BufLen)),
          Jump(Isize(TRUE, Small(3))), Jump(Isize(FALSE, Small(1))),
          Jump(Isize(FALSE, Small(BufLen)))}

\* Addresses of the direct reads and writes of a run.
RunAddrs == {0, BufLen - 1}

\* MachineState::new(pc, bytes).
InitRun ==
    /\ contents \in RunBuffers
    /\ pc \in RunPcs
    /\ checks \in BOOLEAN
    /\ steps = 0
    /\ last = [kind |-> "new", insn |-> NoInsn, res |-> "ok", value |-> <<>>,
               pre_contents |-> contents, pre_pc |-> pc]
    /\ format = None
    /\ instruction = None
    /\ call = NoCall
    /\ domain = None
    /\ trace = <<>>

\* One call of MachineState::execute(insn) in a run; a panic is caught and
\* the run goes on with the state the panic left.
RunExecute ==
    \E insn \in RunInsns :
        /\ steps < MaxRun
        /\ LET out == execute(contents, pc, insn, checks)
           IN  /\ contents' = out.contents
               /\ pc' = out.pc
               /\ last' = Record("execute", insn, out.res, <<>>)
               /\ trace' = Append(trace, Record("execute", insn, out.res, <<>>))
        /\ steps' = steps + 1
        /\ UNCHANGED <<checks, descVars>>

\* One call of state.data.read_u16(address) in a run.
RunRead ==
    \E a \in RunAddrs :
        /\ steps < MaxRun
        /\ LET r == read_uN(contents, a, WidthBytes("Word"))
               rec == Record("read", Load(a, Small(0), "Word"),
                             IF r.ok THEN "ok" ELSE "IndexOutOfBounds", r.value)
           IN  /\ last' = rec
               /\ trace' = Append(trace, rec)
        /\ steps' = steps + 1
        /\ UNCHANGED <<contents, pc, checks, descVars>>

\* One call of state.data.write_u16(address, 257) in a run.
RunWrite ==
    \E a \in RunAddrs :
        /\ steps < MaxRun
        /\ LET st == write_uN(contents, a, <<257>>, WidthBytes("Word"))
               rec == Record("write", Load(a, Small(257), "Word"),
                             IF st.ok THEN "ok" ELSE "IndexOutOfBounds", <<257>>)
           IN  /\ contents' = st.contents
               /\ last' = rec
               /\ trace' = Append(trace, rec)
        /\ steps' = steps + 1
        /\ UNCHANGED <<pc, checks, descVars>>

NextRun ==
    \/ RunExecute
    \/ RunRead
    \/ RunWrite

SpecRun == InitRun /\ [][NextRun]_vars

\* ------------------------------------------- operands and templates (insn.rs)

\* The result of a call that returned value, and of one that panicked.
Done(value) == [res |-> "ok", value |-> value]
Panic(kind) == [res |-> kind, value |-> <<>>]

\* Operand::Const(v) and Operand::Var(i).  v is an address or a target: no
\* arithmetic is done on it, so it is a plain natural.  i is a usize that is
\* incremented and compared, so it is kept in limbs.
Const(v) == <<"Const", v>>
Var(i) == <<"Var", i>>

\* a < b on two usize.
usize_lt(a, b) == sub_overflows(a, b, UsizeBytes)

\* cmp::max on two usize.
usize_max(a, b) == IF usize_lt(b, a) THEN a ELSE b

\* Operand::arity: `*v + 1` panics on overflow in a build with overflow checks
\* and wraps without them.
Operand_arity(e, chk) ==
    IF e[1] = "Const" THEN Done(Small(0))
    ELSE IF chk /\ add_overflows(e[2], Small(1), UsizeBytes) THEN Panic("AddOverflow")
    ELSE Done(wrapping_add(e[2], Small(1), UsizeBytes))

\* A faulty Operand::as_usize: a variable reads the operand after its own, and
\* the first operand when there is none after it.
as_usize_next(e, operands) ==
    IF e[1] = "Const" THEN Done(e[2])
    ELSE IF usize_lt(e[2], Small(Len(operands)))
         THEN Done(operands[((e[2][1] + 1) % Len(operands)) + 1])
         ELSE Panic("IndexOutOfBounds")

\* Operand::as_usize: `operands[*v]` panics when v is not an index of operands.
as_usize(e, operands) ==
    IF e[1] = "Const" THEN Done(e[2])
    ELSE IF usize_lt(e[2], Small(Len(operands))) THEN Done(operands[e[2][1] + 1])
         ELSE Panic("IndexOutOfBounds")

\* The variants of AbstractMicroCode, as tuples <<variant, x, y, width, imm>>
\* read with OpOf, XOf, YOf, WOf and ImmOf; a field a variant does not have
\* holds a fixed filler.
ACopy(x, y, w) == <<"Copy", x, y, w, Small(0)>>
AGoto(x) == <<"Goto", x, Const(0), "Byte", Small(0)>>
AJump(x) == <<"Jump", x, Const(0), "Byte", Small(0)>>
ALoad(x, i, w) == <<"Load", x, Const(0), w, i>>

\* AbstractMicroCode::arity.  Only Copy and Load have an arm; every other
\* variant reaches todo!().
arity(code, chk) ==
    CASE OpOf(code) = "Copy" ->
            LET ax == Operand_arity(XOf(code), chk)
                ay == Operand_arity(YOf(code), chk)
            IN  IF ax.res # "ok" THEN ax
                ELSE IF ay.res # "ok" THEN ay
                ELSE Done(usize_max(ax.value, ay.value))
      [] OpOf(code) = "Load" -> Operand_arity(XOf(code), chk)
      [] OTHER -> Panic("todo")

\* AbstractMicroCode::to_microcode.  Only Copy and Load have an arm; every
\* other variant reaches todo!().
to_microcode(code, operands) ==
    CASE OpOf(code) = "Copy" ->
            LET l == as_usize(XOf(code), operands)
                r == as_usize(YOf(code), operands)
            IN  IF l.res # "ok" THEN l
                ELSE IF r.res # "ok" THEN r
                ELSE Done(Copy(l.value, r.value, WOf(code)))
      [] OpOf(code) = "Load" ->
            LET l == as_usize(XOf(code), operands)
            IN  IF l.res # "ok" THEN l
                ELSE Done(Load(l.value, ImmOf(code), WOf(code)))
      [] OTHER -> Panic("todo")

\* ---------------------------------------- specification: template calls

\* Longest operand tuple handed to a lowering.
MaxOperands == 2

\* The sequences over S of length at most n.
SeqsUpTo(S, n) == UNION {[1..m -> S] : m \in 0..n}

\* Operand values of an encoded instruction.
OperandValues == {1, 2}

OperandTuples == SeqsUpTo(OperandValues, MaxOperands)

\* Operand expressions: constants, variables inside and outside the tuples,
\* and the variable of the largest index.
OperandExprs ==
    {Const(0), Const(123), Var(Small(0)), Var(Small(1)), Var(Small(MaxOperands)), Var(UsizeMax)}

TemplateImms == {Small(0), <<513, 1027, 1541, 2055>>}

TemplateWidths == {"Byte", "QuadWord"}

Templates ==
    {ACopy(x, y, w) : x \in OperandExprs, y \in OperandExprs, w \in TemplateWidths}
    \cup UNION {{ALoad(x, i, w) : x \in OperandExprs, i \in TemplateImms} : w \in TemplateWidths}
    \cup {AGoto(x) : x \in OperandExprs}
    \cup {AJump(x) : x \in OperandExprs}

\* The machine plays no part in these specifications: it stays as built by
\* MachineState::new(0, bytes) over a zeroed buffer.
InitDesc ==
    /\ contents = [k \in 0..(BufLen - 1) |-> 0]
    /\ pc = Small(0)
    /\ checks \in BOOLEAN
    /\ steps = 0
    /\ last = [kind |-> "new", insn |-> NoInsn, res |-> "ok", value |-> <<>>,
               pre_contents |-> contents, pre_pc |-> pc]
    /\ format = None
    /\ instruction = None
    /\ call = NoCall
    /\ domain = None
    /\ trace = <<>>

machineVars == <<contents, pc, checks, steps, last, trace>>

\* One call of e.arity() on an operand expression.
CallOperandArity ==
    \E e \in OperandExprs :
        /\ call = NoCall
        /\ LET r == Operand_arity(e, checks)
           IN  call' = [kind |-> "Operand::arity", op |-> e, operands |-> <<>>,
                        res |-> r.res, value |-> r.value]
        /\ UNCHANGED <<machineVars, format, instruction, domain>>

\* One call of code.arity() on a template.
CallArity ==
    \E code \in Templates :
        /\ call = NoCall
        /\ LET r == arity(code, checks)
           IN  call' = [kind |-> "arity", op |-> code, operands |-> <<>>,
                        res |-> r.res, value |-> r.value]
        /\ UNCHANGED <<machineVars, format, instruction, domain>>

\* One call of code.to_microcode(operands) on a template.
CallToMicrocode ==
    \E code \in Templates, operands \in OperandTuples :
        /\ call = NoCall
        /\ LET r == to_microcode(code, operands)
           IN  call' = [kind |-> "to_microcode", op |-> code, operands |-> operands,
                        res |-> r.res, value |-> r.value]
        /\ UNCHANGED <<machineVars, format, instruction, domain>>

NextOps ==
    \/ CallOperandArity
    \/ CallArity
    \/ CallToMicrocode

SpecOps == InitDesc /\ [][NextOps]_vars

\* ------------------------------------------------- domains (domain.rs)

\* A BigUint has no fixed width: it is kept as the little-endian sequence of
\* its base-256 digits with no leading zero digit; zero is the empty sequence.
BigBase == 256

\* x without its leading (last) zero digits.
RECURSIVE Normal(_)
Normal(x) ==
    IF x = <<>> THEN <<>>
    ELSE IF x[Len(x)] = 0 THEN Normal(SubSeq(x, 1, Len(x) - 1))
    ELSE x

\* BigUint::from(n) for a small n.
BigUint_from(n) == Normal(<<n>>)

\* The digits of a * m + carry for a small m, not yet normalised.
RECURSIVE MulDigits(_, _, _)
MulDigits(a, m, carry) ==
    IF a = <<>> THEN (IF carry = 0 THEN <<>> ELSE <<carry>>)
    ELSE <<(a[1] * m + carry) % BigBase>>
         \o MulDigits(Tail(a), m, (a[1] * m + carry) \div BigBase)

\* A faulty BigUint * u32: the product is cut to eight digits (a u64).
mul_u32_wrapping(a, m) ==
    Normal(SubSeq(MulDigits(a, m, 0), 1,
                  IF Len(MulDigits(a, m, 0)) < 8 THEN Len(MulDigits(a, m, 0)) ELSE 8))

\* BigUint * u32, for a multiplier of at most 256.
mul_u32(a, m) == Normal(MulDigits(a, m, 0))

\* The digits of a + b + carry.
RECURSIVE AddDigits(_, _, _)
AddDigits(a, b, carry) ==
    IF a = <<>> /\ b = <<>> THEN (IF carry = 0 THEN <<>> ELSE <<carry>>)
    ELSE LET da == IF a = <<>> THEN 0 ELSE a[1]
             db == IF b = <<>> THEN 0 ELSE b[1]
         IN  <<(da + db + carry) % BigBase>>
             \o AddDigits(IF a = <<>> THEN a ELSE Tail(a),
                          IF b = <<>> THEN b ELSE Tail(b),
                          (da + db + carry) \div BigBase)

\* A faulty BigUint * BigUint: the product is cut to eight digits (a u64).
RECURSIVE mul_u64(_, _)
mul_u64(a, b) ==
    IF b = <<>> THEN <<>>
    ELSE LET rest == mul_u64(a, Tail(b))
             full == AddDigits(mul_u32(a, b[1]), IF rest = <<>> THEN <<>> ELSE <<0>> \o rest, 0)
         IN  Normal(SubSeq(full, 1, IF Len(full) < 8 THEN Len(full) ELSE 8))

\* BigUint * BigUint: schoolbook multiplication, one digit of b at a time.
RECURSIVE mul(_, _)
mul(a, b) ==
    IF b = <<>> THEN <<>>
    ELSE LET rest == mul(a, Tail(b))
         IN  Normal(AddDigits(mul_u32(a, b[1]),
                              IF rest = <<>> THEN <<>> ELSE <<0>> \o rest, 0))

\* A faulty comparison: only the numbers of digits are compared.
ge_by_length(a, b) == Len(a) >= Len(b)

\* a >= b on two BigUint: the longer is the larger; of two of one length the
\* one with the larger digit at the highest place where they differ.
RECURSIVE ge(_, _)
ge(a, b) ==
    IF Len(a) # Len(b) THEN Len(a) > Len(b)
    ELSE IF a = <<>> THEN TRUE
    ELSE IF a[Len(a)] # b[Len(b)] THEN a[Len(a)] > b[Len(b)]
    ELSE ge(SubSeq(a, 1, Len(a) - 1), SubSeq(b, 1, Len(b) - 1))

\* A Bits and a Bytes are modelled by their field `value` (a u8 above zero).
\* Some of the constants of domain.rs.
TWO_BITS == 2
THREE_BITS == 3
FOUR_BITS == 4
SIX_BITS == 6
EIGHT_BITS == 8
TEN_BITS == 10
ONE_BYTE == 1
TWO_BYTES == 2

\* The loop `for i in 0 .. value { count = count * m }` with `left` rounds to
\* go.  Each product is worked out (its length taken) before the next round.
RECURSIVE CountLoop(_, _, _)
CountLoop(count, m, left) ==
    IF left = 0 THEN count
    ELSE LET product == mul_u32(count, m)
         IN  IF Len(product) >= 0 THEN CountLoop(product, m, left - 1) ELSE product

\* Countable for Bits: 1 multiplied by 2, value times.
Bits_count(value) == CountLoop(BigUint_from(1), 2, value)

\* Countable for Bytes: 1 multiplied by 256, value times.
Bytes_count(value) == CountLoop(BigUint_from(1), 256, value)

\* --------------------------------------------------------- formats (insn.rs)

\* struct Format, as the tuple <<width, label, opcode, operands>>.
Format(width, label, opcode, operands) == <<width, label, opcode, operands>>

WidthOfFormat(f) == f[1]
LabelOf(f) == f[2]
OpcodeOf(f) == f[3]
OperandsOf(f) == f[4]

\* The loop of Format::count: count multiplied by the count of each operand
\* from index k on.
RECURSIVE CountFrom(_, _, _)
CountFrom(count, operands, k) ==
    IF k > Len(operands) THEN count
    ELSE CountFrom(mul(count, Bits_count(operands[k])), operands, k + 1)

\* Countable for Format.
Format_count(f) == CountFrom(Bits_count(OpcodeOf(f)), OperandsOf(f), 1)

\* A faulty Format::new: the format must leave at least one encoding unused.
Format_new_strict(width, label, opcode, operands) ==
    LET r == Format(width, label, opcode, operands)
    IN  IF ge(Bytes_count(width), Format_count(r)) /\ Bytes_count(width) # Format_count(r)
        THEN Done(r) ELSE Panic("AssertFailed")

\* Format::new: the assertion fails when the width cannot hold the encodings.
Format_new(width, label, opcode, operands) ==
    LET r == Format(width, label, opcode, operands)
    IN  IF ge(Bytes_count(width), Format_count(r)) THEN Done(r) ELSE Panic("AssertFailed")

\* ------------------------------------------------- specification: formats

\* Widths, in bytes: one and two bytes, and one beyond 64 bits.
FormatWidths == {ONE_BYTE, TWO_BYTES, 9}

Labels == {"fmt", "alt"}

\* Opcode widths, in bits.
OpcodeBits == {TWO_BITS, FOUR_BITS, SIX_BITS, TEN_BITS, 64}

\* Operand widths, in bits.
OperandBits == {TWO_BITS, THREE_BITS, FOUR_BITS, EIGHT_BITS}

\* One call of Format::new(width, label, opcode, operands).
FormatNew ==
    \E width \in FormatWidths, label \in Labels, opcode \in OpcodeBits,
       operands \in SeqsUpTo(OperandBits, MaxOperands) :
        /\ format = None
        /\ call = NoCall
        /\ LET r == Format_new(width, label, opcode, operands)
           IN  /\ format' = IF r.res = "ok" THEN r.value ELSE None
               /\ call' = [kind |-> "Format::new",
                           op |-> Format(width, label, opcode, operands),
                           operands |-> <<>>, res |-> r.res, value |-> r.value]
        /\ UNCHANGED <<machineVars, instruction, domain>>

\* One call of format.count().
FormatCount ==
    /\ format # None
    /\ call' = [kind |-> "Format::count", op |-> format, operands |-> <<>>,
                res |-> "ok", value |-> Format_count(format)]
    /\ UNCHANGED <<machineVars, format, instruction, domain>>

NextFormat ==
    \/ FormatNew
    \/ FormatCount

SpecFormat == InitDesc /\ [][NextFormat]_vars

\* ---------------------------------------------------- instructions (insn.rs)

\* struct Instruction, as the tuple <<mnemonic, format, semantic>>.
Instruction(mnemonic, f, semantic) == <<mnemonic, f, semantic>>

FormatOf(insn) == insn[2]
SemanticOf(insn) == insn[3]

\* The loop of Instruction::new from index k on: the arity of each template
\* is computed (which may panic) and asserted to be at most the number of
\* operands of the format.
RECURSIVE AssertArityFrom(_, _, _, _)
AssertArityFrom(f, semantic, k, chk) ==
    IF k > Len(semantic) THEN Done(<<>>)
    ELSE LET a == arity(semantic[k], chk)
         IN  IF a.res # "ok" THEN a
             ELSE IF usize_lt(Small(Len(OperandsOf(f))), a.value) THEN Panic("AssertFailed")
             ELSE AssertArityFrom(f, semantic, k + 1, chk)

\* Instruction::new.
Instruction_new(mnemonic, f, semantic, chk) ==
    LET asserted == AssertArityFrom(f, semantic, 1, chk)
    IN  IF asserted.res # "ok" THEN asserted
        ELSE Done(Instruction(mnemonic, f, semantic))

\* The loop of Instruction::to_microcode from index k on: each template is
\* lowered (which may panic) and pushed at the end of microcode.
RECURSIVE PushFrom(_, _, _, _)
PushFrom(microcode, semantic, operands, k) ==
    IF k > Len(semantic) THEN Done(microcode)
    ELSE LET c == to_microcode(semantic[k], operands)
         IN  IF c.res # "ok" THEN c
             ELSE PushFrom(Append(microcode, c.value), semantic, operands, k + 1)

\* A faulty Instruction::to_microcode: the templates are lowered last first.
Instruction_to_microcode_reversed(insn, operands) ==
    PushFrom(<<>>, [k \in 1..Len(SemanticOf(insn)) |->
                        SemanticOf(insn)[Len(SemanticOf(insn)) + 1 - k]], operands, 1)

\* Instruction::to_microcode.
Instruction_to_microcode(insn, operands) ==
    PushFrom(<<>>, SemanticOf(insn), operands, 1)

\* -------------------------------------------- specification: instructions

\* Longest semantic list of an instruction.
MaxSemantic == 2

\* The operand lists of the formats instructions are built against: one for
\* each number of operands.
InsnFormatOperands == {[k \in 1..n |-> THREE_BITS] : n \in 0..MaxOperands}

\* The templates instructions are built from.
InsnTemplates ==
    {ALoad(Var(Small(0)), Small(0), "Byte"),
     ALoad(Const(123), Small(0), "Byte"),
     ALoad(Var(Small(1)), <<513, 1027, 1541, 2055>>, "QuadWord"),
     ALoad(Var(UsizeMax), Small(0), "Byte"),
     ACopy(Var(Small(0)), Var(Small(1)), "Byte"),
     ACopy(Var(Small(1)), Const(0), "QuadWord"),
     ACopy(Const(123), Var(Small(MaxOperands)), "Byte"),
     AGoto(Const(0)),
     AJump(Var(Small(0)))}

\* One call of Instruction::new(mnemonic, format, semantic), against a format
\* that Format::new returned.
InstructionNew ==
    \E bits \in InsnFormatOperands, semantic \in SeqsUpTo(InsnTemplates, MaxSemantic) :
        /\ instruction = None
        /\ call = NoCall
        /\ Format_new(TWO_BYTES, "fmt", FOUR_BITS, bits).res = "ok"
        /\ LET f == Format_new(TWO_BYTES, "fmt", FOUR_BITS, bits).value
               r == Instruction_new("insn", f, semantic, checks)
           IN  /\ instruction' = IF r.res = "ok" THEN r.value ELSE None
               /\ call' = [kind |-> "Instruction::new",
                           op |-> Instruction("insn", f, semantic),
                           operands |-> <<>>, res |-> r.res, value |-> r.value]
        /\ UNCHANGED <<machineVars, format, domain>>

\* One call of instruction.to_microcode(operands).
InstructionToMicrocode ==
    \E operands \in OperandTuples :
        /\ instruction # None
        /\ LET r == Instruction_to_microcode(instruction, operands)
           IN  call' = [kind |-> "Instruction::to_microcode", op |-> instruction,
                        operands |-> operands, res |-> r.res, value |-> r.value]
        /\ UNCHANGED <<machineVars, format, instruction, domain>>

NextInsn ==
    \/ InstructionNew
    \/ InstructionToMicrocode

SpecInsn == InitDesc /\ [][NextInsn]_vars

\* ------------------------------------------- specification: domains (domain.rs)

\* u8::MAX: the largest value a Bits or a Bytes can hold.
U8Max == 255

\* struct Bits and struct Bytes as tagged tuples <<type, value>>.
Bits(value) == <<"Bits", value>>
Bytes(value) == <<"Bytes", value>>

TypeOf(d) == d[1]
ValueOf(d) == d[2]

\* The remaining constants of domain.rs.
ONE_BITS == 1
FIVE_BITS == 5
SEVEN_BITS == 7
NINE_BITS == 9

\* The predefined Bits and Bytes values: built as struct literals, not by from.
DomainConstants ==
    {Bits(v) : v \in {ONE_BITS, TWO_BITS, THREE_BITS, FOUR_BITS, FIVE_BITS,
                      SIX_BITS, SEVEN_BITS, EIGHT_BITS, NINE_BITS, TEN_BITS}}
    \cup {Bytes(ONE_BYTE), Bytes(TWO_BYTES)}

\* A faulty From<u8>: no assertion.
from_unchecked(type, value) == Done(<<type, value>>)

\* From<u8> for Bits and From<u8> for Bytes: assert!(value != 0).
from(type, value) ==
    IF value # 0 THEN Done(<<type, value>>) ELSE Panic("AssertFailed")

\* A faulty factor: every domain counts in bits.
Factor_of_bits(d) == 2

\* The factor of one round of count: 2u32 for Bits, 256u32 for Bytes.
Factor(d) == IF TypeOf(d) = "Bits" THEN 2 ELSE 256

\* One call of Bits::from(value) or Bytes::from(value).
DomainFrom ==
    \E type \in {"Bits", "Bytes"}, value \in 0..U8Max :
        /\ domain = None
        /\ call = NoCall
        /\ LET r == from(type, value)
           IN  /\ domain' = IF r.res = "ok" THEN r.value ELSE None
               /\ call' = [kind |-> "from", op |-> <<type, value>>, operands |-> <<>>,
                           res |-> r.res, value |-> r.value]
        /\ UNCHANGED <<machineVars, format, instruction>>

\* One of the predefined constants is taken.
DomainConstant ==
    \E c \in DomainConstants :
        /\ domain = None
        /\ call = NoCall
        /\ domain' = c
        /\ call' = [kind |-> "constant", op |-> c, operands |-> <<>>,
                    res |-> "ok", value |-> c]
        /\ UNCHANGED <<machineVars, format, instruction>>

\* domain.count() is entered: count = BigUint::from(1u32) and the loop is at
\* i = 0.  The call in progress keeps i in operands and count in value.
CountEnter ==
    /\ domain # None
    /\ call.res # "running"
    /\ call' = [kind |-> "count", op |-> domain, operands |-> <<0>>,
                res |-> "running", value |-> BigUint_from(1)]
    /\ UNCHANGED <<machineVars, format, instruction, domain>>

\* One round of the loop of count: count = count * 2u32 (or 256u32).
CountRound ==
    /\ call.res = "running"
    /\ call.operands[1] < ValueOf(call.op)
    /\ call' = [call EXCEPT !.operands = <<call.operands[1] + 1>>,
                            !.value = mul_u32(call.value, Factor(call.op))]
    /\ UNCHANGED <<machineVars, format, instruction, domain>>

\* The loop of count is over: count is returned.
CountReturn ==
    /\ call.res = "running"
    /\ call.operands[1] = ValueOf(call.op)
    /\ call' = [call EXCEPT !.res = "ok"]
    /\ UNCHANGED <<machineVars, format, instruction, domain>>

NextDomain ==
    \/ DomainFrom
    \/ DomainConstant
    \/ CountEnter
    \/ CountRound
    \/ CountReturn

SpecDomain == InitDesc /\ [][NextDomain]_vars

\* ------------------------------------------ instructions of microcode (lib.rs)

\* lib.rs holds a second Instruction, whose semantic is a list of MachineCode
\* and which can be executed.  Its MachineState::execute (lib.rs:257-346) is
\* line for line that of machine.rs, modelled by execute above.

\* Largest number of ops in the semantic of an executed instruction.
MaxOps == 3

\* The call of state.execute(*insn) made on op k of the semantic, as a record
\* of the trace: the op, how the call ended, and the memory and pc it saw.
OpCall(mem, at, insn, res) ==
    [kind |-> "execute", insn |-> insn, res |-> res, value |-> <<>>,
     pre_contents |-> mem, pre_pc |-> at]

\* `for insn in self.semantic { state.execute(*insn); }` from op k on.  A
\* panic of state.execute unwinds out of the loop: no later op is run, and
\* the state stays as the panic left it.  `calls` are the calls made.
RECURSIVE ExecuteFrom(_, _, _, _, _, _)
ExecuteFrom(mem, at, semantic, k, chk, calls) ==
    IF k > Len(semantic)
    THEN [res |-> "ok", contents |-> mem, pc |-> at, calls |-> calls]
    ELSE LET out == execute(mem, at, semantic[k], chk)
             made == Append(calls, OpCall(mem, at, semantic[k], out.res))
         IN  IF out.res # "ok"
             THEN [res |-> out.res, contents |-> out.contents, pc |-> out.pc,
                   calls |-> made]
             ELSE ExecuteFrom(out.contents, out.pc, semantic, k + 1, chk, made)

\* Instruction::execute(&self, state).
Instruction_execute(mem, at, semantic, chk) ==
    ExecuteFrom(mem, at, semantic, 1, chk, <<>>)

\* The microcode of the semantics: ops that succeed and change memory or pc,
\* a Copy that fails after its first store, a Load that fails before any, and
\* a Jump below 0.
SemanticInsns ==
    {Load(0, Small(255), "Byte"), Add(0, 1, "Byte"), Copy(1, 0, "Byte"),
     Copy(BufLen - 1, 0, "Word"), Load(BufLen, Small(255), "Byte"),
     Goto(Small(BufLen)), Jump(Isize(FALSE, Small(1))), Jump(Isize(TRUE, Small(3)))}

Semantics == SeqsUpTo(SemanticInsns, MaxOps)

\* One call of Instruction::new(mnemonic, format, semantic) of lib.rs, which
\* checks nothing; the format plays no part in the execution.
LibInstructionNew ==
    \E semantic \in Semantics :
        /\ instruction = None
        /\ instruction' = Instruction("insn", Format(ONE_BYTE, "fmt", TWO_BITS, <<>>),
                                      semantic)
        /\ UNCHANGED <<machineVars, format, call, domain>>

\* One call of instruction.execute(&mut state).
LibInstructionExecute ==
    /\ instruction # None
    /\ steps < MaxSteps
    /\ LET out == Instruction_execute(contents, pc, SemanticOf(instruction), checks)
       IN  /\ contents' = out.contents
           /\ pc' = out.pc
           /\ last' = Record("Instruction::execute", NoInsn, out.res, <<>>)
           /\ trace' = out.calls
    /\ steps' = steps + 1
    /\ UNCHANGED <<checks, descVars>>

NextLib ==
    \/ LibInstructionNew
    \/ LibInstructionExecute

SpecLib == InitRun /\ [][NextLib]_vars

\* ---------------------------------------------------- properties: helpers

\* The number of bytes of the buffer.
BufferLength == Cardinality(DOMAIN contents)

\* An access of n bytes at address a lies wholly inside the buffer.
InRange(a, n) == a + n <= BufferLength

\* The n bytes at address a before and after the last operation.
PreBytes(a, n) == [k \in 1..n |-> last.pre_contents[a + k - 1]]
NowBytes(a, n) == [k \in 1..n |-> contents[a + k - 1]]

\* The last operation was execute(insn) with insn of the given variant.
Executed(op) == last.kind = "execute" /\ OpOf(last.insn) = op

\* Width in bytes of the last operation's width tag.
LastN == WidthBytes(WOf(last.insn))

\* The integer a little-endian sequence of at most three bytes stands for.
RECURSIVE LEValue(_)
LEValue(bytes) ==
    IF bytes = <<>> THEN 0 ELSE bytes[1] + 256 * LEValue(Tail(bytes))

\* Schoolbook addition of two little-endian byte sequences of one length,
\* byte by byte, the carry out of the last byte dropped: the sum modulo
\* 256^length.
RECURSIVE ByteCarry(_, _, _)
ByteCarry(a, b, k) ==
    IF k = 1 THEN 0 ELSE (a[k - 1] + b[k - 1] + ByteCarry(a, b, k - 1)) \div 256

ByteSum(a, b) == [k \in 1..Len(a) |-> (a[k] + b[k] + ByteCarry(a, b, k)) % 256]

\* Byte k (k = 0 the least significant) of a u64: (v div 256^k) mod 256.
ByteOf(v, k) == (v[(k \div 2) + 1] \div (IF k % 2 = 0 THEN 1 ELSE 256)) % 256

\* A u64 is less than 2^(8n).
FitsBytes(v, n) == \A k \in n..(UsizeBytes - 1) : ByteOf(v, k) = 0

\* q = p + m in the integers, for 64-bit p, m and q: there are carries, none
\* into the lowest limb and none out of the highest, that make every limb
\* column add up.
PlusExact(p, m, q) ==
    \E c \in [1..(Limbs(UsizeBytes) + 1) -> {0, 1}] :
        /\ c[1] = 0
        /\ c[Limbs(UsizeBytes) + 1] = 0
        /\ \A j \in 1..Limbs(UsizeBytes) : p[j] + m[j] + c[j] = q[j] + Radix * c[j + 1]

\* a < b for 64-bit a and b: they differ, and at the highest limb where they
\* differ a is the smaller.
Less(a, b) ==
    \E k \in 1..Limbs(UsizeBytes) :
        /\ a[k] < b[k]
        /\ \A j \in (k + 1)..Limbs(UsizeBytes) : a[j] = b[j]

\* usize::MAX - m, limb by limb (no limb of m exceeds a limb of usize::MAX).
Complement(m) == [j \in 1..Limbs(UsizeBytes) |-> (Radix - 1) - m[j]]

\* pc advanced by exactly one over the last operation.
PcPlusOne == PlusExact(last.pre_pc, Small(1), pc)

\* Memory is as it was before the last operation.
MemoryUnchanged == contents = last.pre_contents

\* ---------------------------------------------------------------- claim C1

\* What Add is to do with in-range operands: succeed, leave at x the
\* little-endian sum modulo 2^(8w) of the two values read from the pre-state,
\* and advance pc by one.
AddEffect ==
    /\ last.res = "ok"
    /\ NowBytes(XOf(last.insn), LastN)
         = ByteSum(PreBytes(XOf(last.insn), LastN), PreBytes(YOf(last.insn), LastN))
    /\ LastN <= 2 =>
         LEValue(NowBytes(XOf(last.insn), LastN))
           = (LEValue(PreBytes(XOf(last.insn), LastN))
                + LEValue(PreBytes(YOf(last.insn), LastN))) % (IF LastN = 1 THEN 256 ELSE Radix)
    /\ PcPlusOne

\* C1 as claimed: execute(Add(x,y,w)) with both operands in range writes the
\* wrapped sum at x, never fails, and increments pc by exactly 1, whatever pc
\* is.
C1_AsClaimed ==
    (Executed("Add") /\ InRange(XOf(last.insn), LastN) /\ InRange(YOf(last.insn), LastN))
        => AddEffect

\* C1 amended: the same, provided pc is less than usize::MAX before the
\* operation.
C1_AddWraps ==
    (/\ Executed("Add")
     /\ InRange(XOf(last.insn), LastN)
     /\ InRange(YOf(last.insn), LastN)
     /\ last.pre_pc # UsizeMax)
        => AddEffect

\* A QuadWord Add of two overlapping all-ones operands, whose sum wraps.
C1_Witness ==
    /\ Executed("Add")
    /\ WOf(last.insn) = "QuadWord" /\ XOf(last.insn) = 0 /\ YOf(last.insn) = 1
    /\ last.pre_pc # UsizeMax
    /\ last.res = "ok"
    /\ \A k \in 0..8 : last.pre_contents[k] = 255
    /\ contents[0] = 254

\* ---------------------------------------------------------------- claim C2

\* What Load is to do with an in-range address and a fitting immediate.
LoadEffect ==
    /\ last.res = "ok"
    /\ \A k \in 0..(LastN - 1) : contents[XOf(last.insn) + k] = ByteOf(ImmOf(last.insn), k)
    /\ PcPlusOne

\* C2 as claimed: execute(Load(x,imm,w)) with x in range and imm < 2^(8w)
\* stores imm little-endian in the w bytes at x and increments pc by exactly
\* 1, whatever pc is.
C2_AsClaimed ==
    (Executed("Load") /\ InRange(XOf(last.insn), LastN) /\ FitsBytes(ImmOf(last.insn), LastN))
        => LoadEffect

\* C2 amended: the same, provided pc is less than usize::MAX before the
\* operation.
C2_LoadStores ==
    (/\ Executed("Load")
     /\ InRange(XOf(last.insn), LastN)
     /\ FitsBytes(ImmOf(last.insn), LastN)
     /\ last.pre_pc # UsizeMax)
        => LoadEffect

\* Load(1, 0x01020304, DoubleWord) stored 04 03 02 01 at addresses 1..4.
C2_Witness ==
    /\ Executed("Load")
    /\ WOf(last.insn) = "DoubleWord" /\ XOf(last.insn) = 1
    /\ ImmOf(last.insn) = <<772, 258, 0, 0>>
    /\ last.res = "ok"
    /\ NowBytes(1, 4) = <<4, 3, 2, 1>>
    /\ pc = Small(3)

\* ---------------------------------------------------------------- claim C3

\* C3: a Load whose immediate does not fit a width narrower than 64 bits
\* fails on the conversion and leaves memory and pc as they were; a QuadWord
\* Load never fails on the conversion.
C3_ImmediateOverflow ==
    Executed("Load") =>
        IF FitsBytes(ImmOf(last.insn), LastN)
        THEN last.res # "TryFromIntError"
        ELSE /\ LastN < UsizeBytes
             /\ last.res = "TryFromIntError"
             /\ MemoryUnchanged
             /\ pc = last.pre_pc

\* Load(0, 257, Byte) was refused.
C3_Witness ==
    /\ Executed("Load")
    /\ WOf(last.insn) = "Byte" /\ XOf(last.insn) = 0 /\ ImmOf(last.insn) = Small(257)
    /\ last.res = "TryFromIntError"
    /\ MemoryUnchanged

\* ---------------------------------------------------------------- claim C4

\* What Copy is to do with in-range operands.
CopyEffect ==
    /\ last.res = "ok"
    /\ NowBytes(XOf(last.insn), LastN) = PreBytes(YOf(last.insn), LastN)
    /\ PcPlusOne

\* C4 as claimed: execute(Copy(x,y,w)) with both ranges inside the buffer
\* makes the w bytes at x what the w bytes at y were, overlapping or not, and
\* increments pc by exactly 1, whatever pc is.
C4_AsClaimed ==
    (Executed("Copy") /\ InRange(XOf(last.insn), LastN) /\ InRange(YOf(last.insn), LastN))
        => CopyEffect

\* C4 amended: the same, provided pc is less than usize::MAX before the
\* operation.
C4_CopyMoves ==
    (/\ Executed("Copy")
     /\ InRange(XOf(last.insn), LastN)
     /\ InRange(YOf(last.insn), LastN)
     /\ last.pre_pc # UsizeMax)
        => CopyEffect

\* A QuadWord Copy from address 0 to the overlapping address 1 of a buffer
\* whose bytes differ.
C4_Witness ==
    /\ Executed("Copy")
    /\ WOf(last.insn) = "QuadWord" /\ XOf(last.insn) = 1 /\ YOf(last.insn) = 0
    /\ last.res = "ok"
    /\ last.pre_contents[0] # last.pre_contents[1]
    /\ contents[2] = last.pre_contents[1]

\* ---------------------------------------------------------------- claim C5

\* pc + i >= 0 for the offset i of the last Jump.
JumpNotBelowZero == ~IsNeg(OffOf(last.insn)) \/ ~Less(last.pre_pc, Mag(OffOf(last.insn)))

\* pc + i <= usize::MAX for the offset i of the last Jump.
JumpNotAboveMax ==
    IsNeg(OffOf(last.insn)) \/ ~Less(Complement(Mag(OffOf(last.insn))), last.pre_pc)

\* What Jump is to do: succeed, leave pc at exactly pc + i, touch no byte.
JumpEffect ==
    /\ last.res = "ok"
    /\ IF IsNeg(OffOf(last.insn))
       THEN PlusExact(pc, Mag(OffOf(last.insn)), last.pre_pc)
       ELSE PlusExact(last.pre_pc, Mag(OffOf(last.insn)), pc)
    /\ MemoryUnchanged

C6_AsClaimed ==
    (Executed("Jump") /\ IsNeg(OffOf(last.insn)) /\ Less(last.pre_pc, Mag(OffOf(last.insn))))
        => /\ last.res \in {"SubOverflow", "NegOverflow"}
           /\ pc = last.pre_pc
           /\ MemoryUnchanged

\* ---------------------------------------------------------------- claim C7

\* C7: execute(Goto(i)) succeeds, leaves pc at i whatever it was, and leaves
\* every byte of memory unchanged.
C7_GotoSets ==
    Executed("Goto") =>
        /\ last.res = "ok"
        /\ pc = ImmOf(last.insn)
        /\ MemoryUnchanged

\* Goto(2) at pc = usize::MAX left pc at 2.
C7_Witness ==
    /\ Executed("Goto")
    /\ ImmOf(last.insn) = Small(2)
    /\ last.pre_pc = UsizeMax
    /\ pc = Small(2)

\* ---------------------------------------------------------------- claim C8

\* C8 as claimed: one execute is atomic; an operation that fails has changed
\* neither memory nor pc.
C8_AsClaimed ==
    (last.kind = "execute" /\ last.res # "ok")
        => (MemoryUnchanged /\ pc = last.pre_pc)

\* ---------------------------------------------------------------- claim C9

\* C9: a Memory read or write of n bytes at address a (called directly, or by
\* the Add or Copy that execute runs) fails on the index when a + n exceeds
\* the buffer length and succeeds when it does not; the buffer keeps its
\* index range, so nothing is stored outside it.
C9_OutOfBounds ==
    /\ DOMAIN contents = DOMAIN last.pre_contents
    /\ last.kind \in {"read", "write"} =>
         IF InRange(XOf(last.insn), LastN)
         THEN last.res = "ok"
         ELSE last.res = "IndexOutOfBounds"
    /\ (Executed("Add") \/ Executed("Copy")) =>
         IF InRange(XOf(last.insn), LastN) /\ InRange(YOf(last.insn), LastN)
         THEN last.res # "IndexOutOfBounds"
         ELSE last.res = "IndexOutOfBounds"

\* A DoubleWord read at the last address of the buffer, one byte inside and
\* three outside, failed.
C9_Witness ==
    /\ last.kind = "read"
    /\ WOf(last.insn) = "DoubleWord"
    /\ XOf(last.insn) = BufferLength - 1
    /\ last.res = "IndexOutOfBounds"

\* --------------------------------------------------------------- claim C10

\* C10: after a successful write_uN(a, v), read_uN(a) succeeds and returns v.
C10_RoundTrip ==
    (last.kind = "write" /\ last.res = "ok")
        => LET r == read_uN(contents, XOf(last.insn), LastN)
           IN  r.ok /\ r.value = last.value

\* write_u32(1, 0x01020304) succeeded over bytes that held something else.
C10_Witness ==
    /\ last.kind = "write"
    /\ last.res = "ok"
    /\ WOf(last.insn) = "DoubleWord" /\ XOf(last.insn) = 1
    /\ last.value = <<772, 258>>
    /\ PreBytes(1, 4) # NowBytes(1, 4)

\* --------------------------------------------------------------- claim C11

\* C11: multi-byte accesses are little-endian.  After a successful
\* write_uN(a, v) the byte at a + k is (v div 256^k) mod 256 for every k < N/8;
\* a successful read_uN(a) returns the value whose byte k is the byte at a + k,
\* that is the sum over k of byte[a + k] * 256^k (every limb in range, and at
\* the widths one TLC integer can hold, the number itself).
C11_LittleEndian ==
    /\ (last.kind = "write" /\ last.res = "ok") =>
         \A k \in 0..(LastN - 1) : contents[XOf(last.insn) + k] = ByteOf(ImmOf(last.insn), k)
    /\ (last.kind = "read" /\ last.res = "ok") =>
         /\ Len(last.value) = Limbs(LastN)
         /\ \A j \in 1..Limbs(LastN) : last.value[j] \in 0..(LimbRadix(LastN) - 1)
         /\ \A k \in 0..(LastN - 1) : ByteOf(last.value, k) = contents[XOf(last.insn) + k]
         /\ LastN <= 2 => last.value[1] = LEValue(NowBytes(XOf(last.insn), LastN))

\* write_u64(1, 0x0807060504030201) left 01 02 .. 08 at addresses 1..8.
C11_Witness ==
    /\ last.kind = "write"
    /\ last.res = "ok"
    /\ WOf(last.insn) = "QuadWord" /\ XOf(last.insn) = 1
    /\ NowBytes(1, 8) = <<1, 2, 3, 4, 5, 6, 7, 8>>

\* ------------------------------------------- properties: templates, helpers

\* The operand expressions a template mentions.
ExprsOf(code) ==
    IF OpOf(code) = "Copy" THEN {XOf(code), YOf(code)} ELSE {XOf(code)}

\* e is a variable whose index is no index of operands.
Dangling(e, operands) == e[1] = "Var" /\ ~Less(e[2], Small(Len(operands)))

\* The address e stands for under operands, when e is not dangling: the
\* constant itself, or the operand at the variable's index (counted from 0).
Resolved(e, operands) == IF e[1] = "Const" THEN e[2] ELSE operands[e[2][1] + 1]

\* a is the arity of operand expression e: 0 for a constant, i + 1 (in the
\* integers) for the variable of index i.
HasArity(e, a) == IF e[1] = "Const" THEN a = Small(0) ELSE PlusExact(e[2], Small(1), a)

\* The usize values an arity of a template without Var(usize::MAX) can take.
SmallArities == {Small(n) : n \in 0..(MaxOperands + 1)}

\* m is the larger of a and b.
IsMax(a, b, m) == m \in {a, b} /\ ~Less(m, a) /\ ~Less(m, b)

\* --------------------------------------------------------------- claim C13

\* C13: lowering a Load or Copy template whose variables all index the operand
\* tuple succeeds and yields the concrete operation of the same shape, width
\* and immediate, each Const(v) replaced by v and each Var(i) by operands[i].
C13_LoweringSubstitutes ==
    (/\ call.kind = "to_microcode"
     /\ OpOf(call.op) \in {"Copy", "Load"}
     /\ \A e \in ExprsOf(call.op) : ~Dangling(e, call.operands))
    => /\ call.res = "ok"
       /\ OpOf(call.op) = "Load" =>
            call.value = Load(Resolved(XOf(call.op), call.operands),
                              ImmOf(call.op), WOf(call.op))
       /\ OpOf(call.op) = "Copy" =>
            call.value = Copy(Resolved(XOf(call.op), call.operands),
                              Resolved(YOf(call.op), call.operands), WOf(call.op))

\* Copy(Var(1), Var(0), QuadWord) lowered against (1, 2) is Copy(2, 1, QuadWord).
C13_Witness ==
    /\ call.kind = "to_microcode"
    /\ call.op = ACopy(Var(Small(1)), Var(Small(0)), "QuadWord")
    /\ call.operands = <<1, 2>>
    /\ call.res = "ok"
    /\ XOf(call.value) = 2 /\ YOf(call.value) = 1

\* --------------------------------------------------------------- claim C14

\* C14 as stated: lowering a template that mentions a variable whose index is
\* no index of the operand tuple ends in the slice-index panic
\* (OperandIndexOutOfRange).
C14_AsClaimed ==
    (/\ call.kind = "to_microcode"
     /\ \E e \in ExprsOf(call.op) : Dangling(e, call.operands))
    => call.res = "IndexOutOfBounds"

\* --------------------------------------------------------------- claim C17

\* C17 as stated: Goto and Jump templates have an arity and a lowering rule;
\* neither call ends as unimplemented.
C17_AsClaimed ==
    (/\ call.kind \in {"arity", "to_microcode"}
     /\ OpOf(call.op) \in {"Goto", "Jump"})
    => call.res # "todo"

\* --------------------------------------------------------------- claim C18

\* What the arity rules say of the last arity call: Const is 0, Var(i) is
\* i + 1, Load is the arity of its destination, Copy the larger of the
\* arities of its two operand expressions.
ArityRules ==
    /\ call.kind = "Operand::arity" => call.res = "ok" /\ HasArity(call.op, call.value)
    /\ (call.kind = "arity" /\ OpOf(call.op) = "Load") =>
            call.res = "ok" /\ HasArity(XOf(call.op), call.value)
    /\ (call.kind = "arity" /\ OpOf(call.op) = "Copy") =>
            /\ call.res = "ok"
            /\ \E ax \in SmallArities, ay \in SmallArities :
                    /\ HasArity(XOf(call.op), ax)
                    /\ HasArity(YOf(call.op), ay)
                    /\ IsMax(ax, ay, call.value)

\* The operand expressions of the last arity call.
ArityExprs == IF call.kind = "Operand::arity" THEN {call.op} ELSE ExprsOf(call.op)

\* C18 as stated: the arity rules hold of every operand expression and of
\* every Load and Copy template.
C18_AsClaimed ==
    call.kind \in {"Operand::arity", "arity"} => ArityRules

\* C18: the arity rules hold when no variable has the index usize::MAX (whose
\* i + 1 is no usize).
C18_ArityRules ==
    (/\ call.kind \in {"Operand::arity", "arity"}
     /\ \A e \in ArityExprs : e[1] = "Var" => Less(e[2], UsizeMax))
    => ArityRules

\* Copy(Var(0), Var(1), Byte) has arity 2.
C18_Witness ==
    /\ call.kind = "arity"
    /\ call.op = ACopy(Var(Small(0)), Var(Small(1)), "Byte")
    /\ call.res = "ok"
    /\ call.value = Small(2)

\* --------------------------------------------- properties: formats, helpers

\* The sum of a sequence of naturals.
RECURSIVE SumSeq(_)
SumSeq(seq) == IF seq = <<>> THEN 0 ELSE seq[1] + SumSeq(Tail(seq))

\* The bits format f lays out: those of its opcode and of all its operands.
\* The capacities are 2^bits each, so their product is 2^TotalBits(f).
TotalBits(f) == OpcodeOf(f) + SumSeq(OperandsOf(f))

\* 2^e for e below 8.
TwoTo(e) == CASE e = 0 -> 1 [] e = 1 -> 2 [] e = 2 -> 4 [] e = 3 -> 8
              [] e = 4 -> 16 [] e = 5 -> 32 [] e = 6 -> 64 [] e = 7 -> 128

\* The BigUint x is 2^e: in base 256 the digit of place e div 8 is 2^(e mod 8),
\* it is the highest digit, and every lower digit is 0.
IsTwoTo(x, e) ==
    /\ Len(x) = (e \div 8) + 1
    /\ x[Len(x)] = TwoTo(e % 8)
    /\ \A j \in 1..(Len(x) - 1) : x[j] = 0

\* --------------------------------------------------------------- claim C19

\* C19: Format::new fails its assertion (FormatTooWide) exactly when the
\* capacity 256^width of the width is below the product 2^TotalBits of the
\* opcode and operand capacities, that is when 8 * width < TotalBits; a format
\* that fills its width exactly is accepted, and every Format that exists
\* fits its width.
C19_FormatFits ==
    /\ call.kind = "Format::new" =>
          /\ call.res \in {"ok", "AssertFailed"}
          /\ call.res = "AssertFailed" <=> 8 * WidthOfFormat(call.op) < TotalBits(call.op)
          /\ call.res = "ok" => format = call.op
          /\ call.res # "ok" => format = None
    /\ format # None => 8 * WidthOfFormat(format) >= TotalBits(format)

\* A 72-bit format that fills its nine bytes exactly is accepted.
C19_Witness ==
    /\ call.kind = "Format::new"
    /\ call.res = "ok"
    /\ WidthOfFormat(format) = 9
    /\ TotalBits(format) = 72

\* --------------------------------------------------------------- claim C20

\* C20: the capacity Format::count returns is the product of the capacity of
\* the opcode and of the capacities of all operands, 2^TotalBits, whatever the
\* width and the label of the format.
C20_Capacity ==
    call.kind = "Format::count" => IsTwoTo(call.value, TotalBits(call.op))

\* The capacity of a 72-bit format with two operands is 2^72.
C20_Witness ==
    /\ call.kind = "Format::count"
    /\ Len(OperandsOf(call.op)) = 2
    /\ TotalBits(call.op) = 72
    /\ call.value = <<0, 0, 0, 0, 0, 0, 0, 0, 0, 1>>

\* ---------------------------------------- properties: instructions, helpers

\* Template code needs more than n operands: it mentions a variable of index
\* n or above (whose arity i + 1 exceeds n).
NeedsMoreThan(code, n) ==
    \E e \in ExprsOf(code) : e[1] = "Var" /\ ~Less(e[2], Small(n))

\* The number of operands the format of an instruction declares.
DeclaredOperands(insn) == Len(OperandsOf(FormatOf(insn)))

\* --------------------------------------------------------------- claim C12

\* C12 as stated: Instruction::new fails its arity assertion (ArityMismatch)
\* when a template of the semantic list needs more operands than the format
\* declares, and every Instruction that exists has only templates that need
\* no more operands than its format declares.
C12_AsClaimed ==
    /\ (/\ call.kind = "Instruction::new"
        /\ \E k \in 1..Len(SemanticOf(call.op)) :
                NeedsMoreThan(SemanticOf(call.op)[k], DeclaredOperands(call.op)))
       => call.res = "AssertFailed"
    /\ instruction # None =>
          \A k \in 1..Len(SemanticOf(instruction)) :
                ~NeedsMoreThan(SemanticOf(instruction)[k], DeclaredOperands(instruction))

\* --------------------------------------------------------------- claim C15

\* C15 as stated: lowering an Instruction that was constructed, with an
\* operand tuple at least as long as its format's operand list, never ends in
\* the slice-index panic (OperandIndexOutOfRange).
C15_AsClaimed ==
    (/\ call.kind = "Instruction::to_microcode"
     /\ Len(call.operands) >= DeclaredOperands(call.op))
    => call.res # "IndexOutOfBounds"

\* --------------------------------------------------------------- claim C16

\* C16: Instruction::to_microcode returns as many concrete operations as the
\* semantic list has templates, the k-th being the lowering of the k-th
\* template; it returns whenever every template can be lowered.
C16_LowersInOrder ==
    call.kind = "Instruction::to_microcode" =>
        /\ call.res = "ok" =>
              /\ Len(call.value) = Len(SemanticOf(call.op))
              /\ \A k \in 1..Len(SemanticOf(call.op)) :
                    /\ to_microcode(SemanticOf(call.op)[k], call.operands).res = "ok"
                    /\ call.value[k] = to_microcode(SemanticOf(call.op)[k], call.operands).value
        /\ (\A k \in 1..Len(SemanticOf(call.op)) :
                to_microcode(SemanticOf(call.op)[k], call.operands).res = "ok")
           => call.res = "ok"

\* Two templates lowered to two different concrete operations, in order.
C16_Witness ==
    /\ call.kind = "Instruction::to_microcode"
    /\ call.res = "ok"
    /\ Len(call.value) = 2
    /\ OpOf(call.value[1]) = "Load"
    /\ OpOf(call.value[2]) = "Copy"
    /\ OpOf(SemanticOf(call.op)[1]) = "Load"

\* --------------------------------------------- properties: domains, helpers

\* Largest byte-width whose count is also compared with Bits_count directly.
MaxDirectBytes == 10

\* The BigUint x is at least 2.
AtLeastTwo(x) == Len(x) > 1 \/ (Len(x) = 1 /\ x[1] >= 2)

\* The rounds the count in progress (or returned) has made.
Rounds == call.operands[1]

\* --------------------------------------------------------------- claim C21

\* C21: the count of Bits(n) is exactly 2^n for every n a Bits can hold, also
\* beyond 64: after i rounds of the loop the count is 2^i, and the loop
\* returns after n rounds.
C21_BitsCapacity ==
    (call.kind = "count" /\ TypeOf(call.op) = "Bits") =>
        /\ IsTwoTo(call.value, Rounds)
        /\ call.res = "ok" => Rounds = ValueOf(call.op)

\* Bits(255).count() has returned 2^255: 32 digits, the highest 128.
C21_Witness ==
    /\ call.kind = "count"
    /\ call.res = "ok"
    /\ call.op = Bits(U8Max)
    /\ Len(call.value) = 32
    /\ call.value[32] = 128

\* --------------------------------------------------------------- claim C22

\* C22: the count of Bytes(n) is exactly 256^n for every n a Bytes can hold,
\* also beyond 8: after i rounds the count is the digit 1 at place i of base
\* 256, which is 2^(8i), and the loop returns after n rounds.  It is the count
\* of Bits(8n).
C22_BytesCapacity ==
    (call.kind = "count" /\ TypeOf(call.op) = "Bytes") =>
        /\ Len(call.value) = Rounds + 1
        /\ call.value[Rounds + 1] = 1
        /\ IsTwoTo(call.value, 8 * Rounds)
        /\ call.res = "ok" =>
              /\ Rounds = ValueOf(call.op)
              /\ ValueOf(call.op) <= MaxDirectBytes =>
                    call.value = Bits_count(8 * ValueOf(call.op))

\* Bytes(9).count() has returned 256^9, the count of Bits(72).
C22_Witness ==
    /\ call.kind = "count"
    /\ call.res = "ok"
    /\ call.op = Bytes(9)
    /\ call.value = <<0, 0, 0, 0, 0, 0, 0, 0, 0, 1>>
    /\ call.value = Bits_count(72)

\* --------------------------------------------------------------- claim C23

\* C23: Bits::from(0) and Bytes::from(0) fail their assertion (InvalidWidth)
\* and build nothing; every Bits and Bytes that exists, built by from or a
\* predefined constant, has a value of at least 1 and a count of at least 2.
C23_NonZero ==
    /\ (call.kind = "from" /\ ValueOf(call.op) = 0) =>
            call.res = "AssertFailed" /\ domain = None
    /\ (call.kind = "from" /\ ValueOf(call.op) # 0) =>
            call.res = "ok" /\ domain = call.op
    /\ domain # None => ValueOf(domain) >= 1
    /\ (call.kind = "count" /\ call.res = "ok") => AtLeastTwo(call.value)

\* Bytes::from(0) has failed.
C23_Witness ==
    /\ call.kind = "from"
    /\ call.op = Bytes(0)
    /\ call.res = "AssertFailed"
    /\ domain = None

\* --------------------------------------------------------------- claim C24

\* The sign bit of a little-endian byte pattern: 1 when it reads as a negative
\* two's-complement integer.
SignBit(bytes) == IF bytes[Len(bytes)] >= 128 THEN 1 ELSE 0

\* The two's-complement integer a pattern of one or two bytes stands for.
SignedValue(bytes) ==
    LEValue(bytes) - (IF SignBit(bytes) = 1 THEN (IF Len(bytes) = 1 THEN 256 ELSE Radix) ELSE 0)

\* The integer s wrapped into the signed range of n bytes (n = 1 or 2), for s
\* the sum of two integers of that range.
WrapSigned(s, n) ==
    LET modulus == IF n = 1 THEN 256 ELSE Radix
    IN  IF s > (modulus \div 2) - 1 THEN s - modulus
        ELSE IF s < -(modulus \div 2) THEN s + modulus
        ELSE s

\* Pattern r encodes the sum of the signed readings of patterns a and b
\* wrapped into the signed range, at any width.  With U the unsigned and
\* S = U - SignBit * 2^(8n) the signed reading, the byte columns add up to
\* U(a) + U(b) = U(r) + carry * 2^(8n), so S(r) = S(a) + S(b) + k * 2^(8n) for
\* k = SignBit(a) + SignBit(b) - SignBit(r) - carry.  The sum is wrapped the
\* right way when k is 0, or -1 with two non-negative operands and a negative
\* result, or 1 with two negative operands and a non-negative result.
SignedSum(a, b, r) ==
    LET n == Len(a)
        k == SignBit(a) + SignBit(b) - SignBit(r) - ByteCarry(a, b, n + 1)
    IN  /\ \A j \in 1..n :
              a[j] + b[j] + ByteCarry(a, b, j) = r[j] + 256 * ByteCarry(a, b, j + 1)
        /\ k \in {-1, 0, 1}
        /\ k = -1 => SignBit(a) = 0 /\ SignBit(b) = 0 /\ SignBit(r) = 1
        /\ k = 1 => SignBit(a) = 1 /\ SignBit(b) = 1 /\ SignBit(r) = 0

\* C24: Add is representation-agnostic.  With both operands in range, the
\* pattern left at x encodes the sum of the two's-complement readings of the
\* patterns read at x and y, wrapped into the signed range of the width.
C24_SignedAdd ==
    (Executed("Add") /\ InRange(XOf(last.insn), LastN) /\ InRange(YOf(last.insn), LastN))
    => /\ SignedSum(PreBytes(XOf(last.insn), LastN), PreBytes(YOf(last.insn), LastN),
                    NowBytes(XOf(last.insn), LastN))
       /\ LastN <= 2 =>
            SignedValue(NowBytes(XOf(last.insn), LastN))
              = WrapSigned(SignedValue(PreBytes(XOf(last.insn), LastN))
                             + SignedValue(PreBytes(YOf(last.insn), LastN)), LastN)

\* The bytes 100 and 100 read 100 each; their Byte sum 200 reads -56, the sum
\* 200 wrapped into -128 .. 127.
C24_Witness ==
    /\ Executed("Add")
    /\ WOf(last.insn) = "Byte" /\ XOf(last.insn) = 0 /\ YOf(last.insn) = 1
    /\ last.pre_contents[0] = 100 /\ last.pre_contents[1] = 100
    /\ contents[0] = 200
    /\ SignedValue(<<contents[0]>>) = -56

\* --------------------------------------------------------------- claim C27

\* C27: a successful Add, Copy or Load of width w at x changes at most the w
\* bytes at x .. x+w-1: the buffer keeps its addresses, and every byte at an
\* address outside that range is as it was before the operation.
C27_Frame ==
    (/\ last.kind = "execute"
     /\ OpOf(last.insn) \in {"Add", "Copy", "Load"}
     /\ last.res = "ok")
    => /\ DOMAIN contents = DOMAIN last.pre_contents
       /\ \A a \in DOMAIN contents :
            (a < XOf(last.insn) \/ a >= XOf(last.insn) + LastN)
                => contents[a] = last.pre_contents[a]

\* Copy(BufLen - 3, 0, Byte) has changed its destination byte and left its
\* source and the two neighbours of the destination as they were.
C27_Witness ==
    /\ Executed("Copy")
    /\ last.res = "ok"
    /\ WOf(last.insn) = "Byte" /\ XOf(last.insn) = BufLen - 3 /\ YOf(last.insn) = 0
    /\ contents[BufLen - 3] # last.pre_contents[BufLen - 3]
    /\ contents[BufLen - 3] = contents[0]
    /\ contents[0] = last.pre_contents[0]
    /\ contents[BufLen - 4] = last.pre_contents[BufLen - 4]
    /\ contents[BufLen - 2] = last.pre_contents[BufLen - 2]

\* --------------------------------------------------------------- claim C29

\* C29: execute has an arm for every microcode variant at every width: no
\* call of execute, whatever the variant and the width, ends in the catch-all
\* todo!().
C29_NoCatchAll ==
    last.kind = "execute" =>
        /\ OpOf(last.insn) \in {"Add", "Copy", "Goto", "Jump", "Load"}
        /\ last.res # "todo"

\* A QuadWord Copy has been executed by its own arm.
C29_Witness ==
    /\ Executed("Copy")
    /\ WOf(last.insn) = "QuadWord"
    /\ last.res = "ok"
    /\ NowBytes(XOf(last.insn), 8) = PreBytes(YOf(last.insn), 8)

\* --------------------------------------------------------------- claim C25

\* The addresses (and, for Load, the immediate) of the last operation are
\* such that its accesses stay inside the buffer and its conversion succeeds.
OwnOperandsFine ==
    IF OpOf(last.insn) = "Load"
    THEN InRange(XOf(last.insn), LastN) /\ FitsBytes(ImmOf(last.insn), LastN)
    ELSE InRange(XOf(last.insn), LastN) /\ InRange(YOf(last.insn), LastN)

\* Goto succeeds and leaves pc at its target, inside the buffer or not; a
\* Jump whose result is a usize succeeds and leaves pc at that result, inside
\* the buffer or not.
PcNotValidated ==
    /\ Executed("Goto") => last.res = "ok" /\ pc = ImmOf(last.insn)
    /\ (/\ Executed("Jump")
        /\ JumpNotBelowZero
        /\ JumpNotAboveMax
        /\ ~(checks /\ IsNeg(OffOf(last.insn)) /\ Mag(OffOf(last.insn)) = TwoTo63))
          => JumpEffect

\* C25 as claimed: pc is never validated against the memory bounds, and an
\* Add, Copy or Load succeeds or fails according to its own operands only,
\* whatever pc is.
C25_AsClaimed ==
    /\ PcNotValidated
    /\ (last.kind = "execute" /\ OpOf(last.insn) \in {"Add", "Copy", "Load"})
          => (last.res = "ok" <=> OwnOperandsFine)

\* C25 amended: the same, for an Add, Copy or Load executed with pc less
\* than usize::MAX.
C25_PcFree ==
    /\ PcNotValidated
    /\ (/\ last.kind = "execute"
        /\ OpOf(last.insn) \in {"Add", "Copy", "Load"}
        /\ last.pre_pc # UsizeMax)
          => (last.res = "ok" <=> OwnOperandsFine)

\* Goto(BufLen) left pc at the length of the buffer, Jump(+BufLen) moved it
\* further out, and the Add executed there succeeded.
C25_Witness ==
    /\ Len(trace) = 3
    /\ trace[1].kind = "execute" /\ trace[1].insn = Goto(Small(BufLen))
    /\ trace[1].res = "ok"
    /\ trace[2].kind = "execute" /\ OpOf(trace[2].insn) = "Jump"
    /\ trace[2].pre_pc = Small(BufLen)
    /\ trace[2].res = "ok"
    /\ trace[3].pre_pc = Small(2 * BufLen)
    /\ Executed("Add")
    /\ last.res = "ok"
    /\ pc = Small(2 * BufLen + 1)

\* --------------------------------------------------------------- claim C26

\* The buffer the machine was constructed with.
ConstructedContents ==
    IF trace = <<>> THEN last.pre_contents ELSE trace[1].pre_contents

\* C26: after any sequence of execute calls and Memory reads and writes,
\* successful or failed, the buffer has the addresses it was constructed
\* with, as many as then, and every byte is in 0..255; the same holds of the
\* buffer before each operation of the sequence.
C26_FixedLength ==
    /\ DOMAIN contents = DOMAIN ConstructedContents
    /\ Cardinality(DOMAIN contents) = Cardinality(DOMAIN ConstructedContents)
    /\ \A a \in DOMAIN contents : contents[a] \in 0..255
    /\ \A i \in 1..Len(trace) :
          /\ DOMAIN trace[i].pre_contents = DOMAIN ConstructedContents
          /\ \A a \in DOMAIN trace[i].pre_contents : trace[i].pre_contents[a] \in 0..255

\* A write that failed after storing its first byte at the last address, an
\* execute that failed, and a Load that succeeded.
C26_Witness ==
    /\ Len(trace) = 3
    /\ trace[1].kind = "write" /\ trace[1].res = "IndexOutOfBounds"
    /\ trace[2].kind = "execute" /\ trace[2].res = "IndexOutOfBounds"
    /\ Executed("Load") /\ last.res = "ok"
    /\ contents[BufLen - 1] = 1
    /\ contents[0] = 255
    /\ Cardinality(DOMAIN contents) = BufLen

\* --------------------------------------------------------------- claim C28

\* The trace is a sequence of successfully executed microcode ops.
AllExecuted ==
    \A i \in 1..Len(trace) : trace[i].kind = "execute" /\ trace[i].res = "ok"

\* Index of the most recent Goto of the trace, 0 if there is none.
RECURSIVE LastGotoFrom(_)
LastGotoFrom(i) ==
    IF i = 0 THEN 0
    ELSE IF OpOf(trace[i].insn) = "Goto" THEN i
    ELSE LastGotoFrom(i - 1)

LastGoto == LastGotoFrom(Len(trace))

\* The pc the trace started from.
Pc0 == IF trace = <<>> THEN pc ELSE trace[1].pre_pc

\* The target of the most recent Goto, or pc0.
PcBase == IF LastGoto = 0 THEN Pc0 ELSE ImmOf(trace[LastGoto].insn)

\* What operation i of the trace adds to pc: 1 for Add, Copy and Load, the
\* offset for a Jump whose magnitude is below 2^16.
PcStep(i) ==
    IF OpOf(trace[i].insn) = "Jump"
    THEN IF IsNeg(OffOf(trace[i].insn))
         THEN -(Mag(OffOf(trace[i].insn))[1])
         ELSE Mag(OffOf(trace[i].insn))[1]
    ELSE 1

\* Sum of the steps of operations i .. Len(trace).
RECURSIVE PcStepsFrom(_)
PcStepsFrom(i) == IF i > Len(trace) THEN 0 ELSE PcStep(i) + PcStepsFrom(i + 1)

\* Every Jump of the trace has an offset of magnitude below 2^16.
SmallJumps ==
    \A i \in 1..Len(trace) :
        OpOf(trace[i].insn) = "Jump" =>
            Mag(OffOf(trace[i].insn)) = Small(Mag(OffOf(trace[i].insn))[1])

\* C28 as claimed: after any sequence of successfully executed ops starting
\* from pc0, pc is the target of the most recent Goto (pc0 if there was none)
\* plus the number of Add, Copy and Load ops since plus the sum of the Jump
\* offsets since.
C28_AsClaimed ==
    (AllExecuted /\ SmallJumps) =>
        LET delta == PcStepsFrom(LastGoto + 1)
        IN  IF delta >= 0
            THEN PlusExact(PcBase, Small(delta), pc)
            ELSE PlusExact(pc, Small(-delta), PcBase)

\* --------------------------------------------------------------- claim C30

\* C30: Format::new succeeds exactly when the bits of the opcode and of the
\* operands are at most 8 * width in all, the comparison of the capacities it
\* makes decides just that, and the capacity of the format it returns is
\* 2^bits, a number of at most 8 * width bits.
C30_BitCount ==
    /\ call.kind = "Format::new" =>
          /\ call.res = "ok" <=> TotalBits(call.op) <= 8 * WidthOfFormat(call.op)
          /\ ge(Bytes_count(WidthOfFormat(call.op)), Format_count(call.op))
                <=> TotalBits(call.op) <= 8 * WidthOfFormat(call.op)
          /\ call.res = "ok" => IsTwoTo(Format_count(call.value), TotalBits(call.op))
    /\ call.kind = "Format::count" =>
          /\ TotalBits(call.op) <= 8 * WidthOfFormat(call.op)
          /\ IsTwoTo(call.value, TotalBits(call.op))

\* A two-byte format of 16 bits was accepted and its capacity is 2^16.
C30_Witness ==
    /\ call.kind = "Format::count"
    /\ WidthOfFormat(call.op) = TWO_BYTES
    /\ TotalBits(call.op) = 8 * TWO_BYTES
    /\ call.value = <<0, 0, 1>>

\* --------------------------------------------------------------- claim C31

\* Operand tuples a and b agree at every index the template mentions as a
\* variable: both have that index and hold the same value there.
AgreeOn(code, a, b) ==
    \A e \in ExprsOf(code) :
        e[1] = "Var" =>
            /\ ~Dangling(e, a)
            /\ ~Dangling(e, b)
            /\ Resolved(e, a) = Resolved(e, b)

\* C31 as claimed: lowering depends only on the operand slots the template
\* mentions.  Every operand tuple that agrees with the tuple of the last
\* lowering at those slots (every tuple, the empty one included, for a
\* template of constants only) lowers to a concrete op, the one the last
\* lowering returned.
C31_AsClaimed ==
    call.kind = "to_microcode" =>
        \A other \in OperandTuples :
            AgreeOn(call.op, call.operands, other) =>
                /\ call.res = "ok"
                /\ to_microcode(call.op, other) = Done(call.value)

\* --------------------------------------------------------------- claim C32

\* The memory and pc that call i of the trace left behind.
LeftBy(i) ==
    execute(trace[i].pre_contents, trace[i].pre_pc, trace[i].insn, checks)

\* The calls of state.execute an Instruction::execute made are those of the
\* ops of its semantic in list order, up to the first that failed; the first
\* saw the memory and pc of before the instruction, and each later one the
\* memory and pc the call before it left.
InListOrder ==
    /\ Len(trace) <= Len(SemanticOf(instruction))
    /\ \A i \in 1..Len(trace) : trace[i].insn = SemanticOf(instruction)[i]
    /\ \A i \in 1..(Len(trace) - 1) :
          /\ trace[i].res = "ok"
          /\ trace[i + 1].pre_contents = LeftBy(i).contents
          /\ trace[i + 1].pre_pc = LeftBy(i).pc
    /\ trace # <<>> =>
          /\ trace[1].pre_contents = last.pre_contents
          /\ trace[1].pre_pc = last.pre_pc
          /\ trace[Len(trace)].res = last.res
    /\ last.res = "ok" => Len(trace) = Len(SemanticOf(instruction))

\* The memory and pc after the instruction are those its last call left (those
\* of before the instruction when the semantic is empty): when op k failed,
\* what ops 0 .. k-1 did is in place, with whatever op k did before it failed.
SequencedEffect ==
    last.kind = "Instruction::execute" =>
        /\ InListOrder
        /\ trace = <<>> => MemoryUnchanged /\ pc = last.pre_pc
        /\ trace # <<>> =>
              /\ contents = LeftBy(Len(trace)).contents
              /\ pc = LeftBy(Len(trace)).pc

\* C32 as claimed: Instruction::execute applies the ops one at a time in list
\* order, each seeing the memory and pc left by the one before; when op k
\* fails, memory and pc are as ops 0 .. k-1 left them: the instruction is not
\* undone, and the failed op, being atomic, has changed nothing.
C32_AsClaimed ==
    last.kind = "Instruction::execute" =>
        /\ InListOrder
        /\ trace = <<>> => MemoryUnchanged /\ pc = last.pre_pc
        /\ (trace # <<>> /\ last.res = "ok") =>
              /\ contents = LeftBy(Len(trace)).contents
              /\ pc = LeftBy(Len(trace)).pc
        /\ last.res # "ok" =>
              /\ contents = trace[Len(trace)].pre_contents
              /\ pc = trace[Len(trace)].pre_pc

====
